---------------------------- MODULE Spec2Model ----------------------------
(***************************************************************************)
(* Token lifecycle of AxpClient (src/axp_client.py) as driven by one       *)
(* foreground flow of control (src/main.py) and the periodic background    *)
(* task created by start_token_refresh.                                    *)
(*                                                                         *)
(* Time is time.time() in seconds, advanced in steps of Tick.  A token is  *)
(* identified by the number of the token-endpoint request whose response   *)
(* carried it, so that the origin of every TokenState field is visible.    *)
(* Every action is one synchronous stretch of code between two awaits: the *)
(* asyncio event loop never switches tasks inside such a stretch.          *)
(***************************************************************************)
EXTENDS Integers, FiniteSets, Sequences, TLC

\* ---------------------------------------------------------------- bounds
Tick == 10
MaxTime == 70
MaxReqs == 3
MaxTasks == 2
MaxPages == 3
MaxGets == 3

\* ------------------------------------------------------ program constants
SafetyMargin == 50
RenewalPeriod == 60

\* server-declared lifetimes (expires_in / refresh_expires_in), in seconds
AccessTTLs == {60}
RefreshTTLs == {20}

None == 0
Absent == -1

Main == 0
Tasks == 1..MaxTasks
Procs == {Main} \cup Tasks

VARIABLES
    now,                        \* time.time()
    bearer_token,               \* self.bearer_token (None or a token)
    refresh_token,              \* self.refresh_token (None or a token)
    token_expires_at,           \* self.token_expires_at
    refresh_token_expires_at,   \* self.refresh_token_expires_at
    token_expires_src,          \* response that set token_expires_at
    refresh_expires_src,        \* response that set refresh_token_expires_at
    token_refresh_task,         \* self.token_refresh_task (None or a task)
    pc,                         \* where each flow of control is suspended
    wake_at,                    \* end of each task's asyncio.sleep(60)
    req,                        \* the request each flow has in flight
    calls,                      \* requests of the current get_bearer_token
    reqs,                       \* token-endpoint requests sent so far
    ev,                         \* the operation that produced this state
    chain,                      \* the pages the resource endpoint serves
    queues,                     \* self.queues
    queues_url,                 \* queues_url of get_queues (the cursor)
    headers,                    \* the bearer token in get_queues' headers
    gets,                       \* GETs sent by the current get_queues
    token_calls,                \* get_bearer_token calls of that get_queues
    walk,                       \* pages that get_queues has received
    stored_before,              \* self.queues when get_queues was called
    fetched_before              \* the previous get_queues returned a list

tokenState == <<bearer_token, refresh_token, token_expires_at,
                refresh_token_expires_at>>
tokenSrc == <<token_expires_src, refresh_expires_src>>
fetchVars == <<chain, queues, queues_url, headers, gets, token_calls,
               walk, stored_before, fetched_before>>
vars == <<now, bearer_token, refresh_token, token_expires_at,
          refresh_token_expires_at, token_expires_src, refresh_expires_src,
          token_refresh_task, pc, wake_at, req, calls, reqs, ev, chain,
          queues, queues_url, headers, gets, token_calls, walk,
          stored_before, fetched_before>>

\* ------------------------------------------------------------ TokenState
State ==
    [bearer_token |-> bearer_token,
     refresh_token |-> refresh_token,
     token_expires_at |-> token_expires_at,
     refresh_token_expires_at |-> refresh_token_expires_at,
     token_expires_src |-> token_expires_src,
     refresh_expires_src |-> refresh_expires_src]

\* TokenState after __init__
NoTokens ==
    [bearer_token |-> None, refresh_token |-> None, token_expires_at |-> 0,
     refresh_token_expires_at |-> 0, token_expires_src |-> None,
     refresh_expires_src |-> None]

SetInitial(s) ==
    /\ bearer_token = s.bearer_token
    /\ refresh_token = s.refresh_token
    /\ token_expires_at = s.token_expires_at
    /\ refresh_token_expires_at = s.refresh_token_expires_at
    /\ token_expires_src = s.token_expires_src
    /\ refresh_expires_src = s.refresh_expires_src

SetState(s) ==
    /\ bearer_token' = s.bearer_token
    /\ refresh_token' = s.refresh_token
    /\ token_expires_at' = s.token_expires_at
    /\ refresh_token_expires_at' = s.refresh_token_expires_at
    /\ token_expires_src' = s.token_expires_src
    /\ refresh_expires_src' = s.refresh_expires_src

\* ------------------------------------------------- token-endpoint answers
\* What the POST of request i can produce: an HTTP error status or a
\* transport failure ("error"), or a 2xx answer whose JSON body carries any
\* subset of the four keys the client reads.
Responses(i) ==
    {[status |-> "error", id |-> i, access_token |-> Absent,
      refresh_token |-> Absent, expires_in |-> Absent,
      refresh_expires_in |-> Absent]}
    \cup
    [status : {"ok"}, id : {i}, access_token : {Absent, i},
     refresh_token : {Absent, i}, expires_in : AccessTTLs \cup {Absent},
     refresh_expires_in : RefreshTTLs \cup {Absent}]

\* _authenticate from the answer on: the assignments run in order and the
\* first missing key raises KeyError, which `except Exception` turns into
\* `return False` with the earlier assignments already made.
_authenticate(s, r, t) ==
    IF r.status # "ok" \/ r.access_token = Absent
    THEN [s |-> s, ok |-> FALSE]
    ELSE LET s1 == [s EXCEPT !.bearer_token = r.access_token] IN
    IF r.refresh_token = Absent
    THEN [s |-> s1, ok |-> FALSE]
    ELSE LET s2 == [s1 EXCEPT !.refresh_token = r.refresh_token] IN
    IF r.expires_in = Absent
    THEN [s |-> s2, ok |-> FALSE]
    ELSE LET s3 == [s2 EXCEPT !.token_expires_at = t + r.expires_in,
                              !.token_expires_src = r.id] IN
    IF r.refresh_expires_in = Absent
    THEN [s |-> s3, ok |-> FALSE]
    ELSE [s |-> [s3 EXCEPT
                   !.refresh_token_expires_at = t + r.refresh_expires_in,
                   !.refresh_expires_src = r.id],
          ok |-> TRUE]

\* variant of _refresh_access_token that reads the refresh token with
\* token_data.get("refresh_token"), without the held token as default
_refresh_access_token_NoDefault(s, r, t) ==
    IF r.status # "ok" \/ r.access_token = Absent
    THEN [s |-> s, ok |-> FALSE]
    ELSE LET s2 == [s EXCEPT !.bearer_token = r.access_token,
                             !.refresh_token =
                                 IF r.refresh_token = Absent THEN None
                                 ELSE r.refresh_token] IN
    IF r.expires_in = Absent
    THEN [s |-> s2, ok |-> FALSE]
    ELSE LET s3 == [s2 EXCEPT !.token_expires_at = t + r.expires_in,
                              !.token_expires_src = r.id] IN
    IF r.refresh_expires_in = Absent
    THEN [s |-> s3, ok |-> TRUE]
    ELSE [s |-> [s3 EXCEPT
                   !.refresh_token_expires_at = t + r.refresh_expires_in,
                   !.refresh_expires_src = r.id],
          ok |-> TRUE]

\* _refresh_access_token from the answer on: refresh_token and
\* refresh_expires_in are each taken over only when the answer has them.
_refresh_access_token(s, r, t) ==
    IF r.status # "ok" \/ r.access_token = Absent
    THEN [s |-> s, ok |-> FALSE]
    ELSE LET s1 == [s EXCEPT !.bearer_token = r.access_token] IN
         LET s2 == IF r.refresh_token = Absent
                   THEN s1
                   ELSE [s1 EXCEPT !.refresh_token = r.refresh_token] IN
    IF r.expires_in = Absent
    THEN [s |-> s2, ok |-> FALSE]
    ELSE LET s3 == [s2 EXCEPT !.token_expires_at = t + r.expires_in,
                              !.token_expires_src = r.id] IN
    IF r.refresh_expires_in = Absent
    THEN [s |-> s3, ok |-> TRUE]
    ELSE [s |-> [s3 EXCEPT
                   !.refresh_token_expires_at = t + r.refresh_expires_in,
                   !.refresh_expires_src = r.id],
          ok |-> TRUE]

\* --------------------------------------------- get_bearer_token decisions
\* variants of the staleness test with a wider margin and with no margin
NeedsRenewal_WiderMargin(tok, exp, t) ==
    tok = None \/ t >= exp - (SafetyMargin + Tick)

NeedsRenewal_NoMargin(tok, exp, t) ==
    tok = None \/ t >= exp

\* `not self.bearer_token or time.time() >= self.token_expires_at - 50`
NeedsRenewal(tok, exp, t) ==
    tok = None \/ t >= exp - SafetyMargin

\* variant that never looks at the refresh token's expiry
RefreshUsable_IgnoringExpiry(rt, rexp, t) ==
    rt # None

\* `self.refresh_token and time.time() < self.refresh_token_expires_at`
RefreshUsable(rt, rexp, t) ==
    rt # None /\ t < rexp

\* ----------------------------------------------------------------- events
\* what the last operation was, who ran it, the answer it consumed, what it
\* reported to get_bearer_token (ok) and what it handed back to its caller
NoResponse ==
    [status |-> "none", id |-> 0, access_token |-> Absent,
     refresh_token |-> Absent, expires_in |-> Absent,
     refresh_expires_in |-> Absent]

Event(op, p) ==
    [op |-> op, p |-> p, resp |-> NoResponse, ok |-> TRUE,
     returned |-> FALSE, ret |-> None,
     access_token_remaining |-> 0, refresh_token_remaining |-> 0]

Returned(op, p, r, ok, tok) ==
    [Event(op, p) EXCEPT !.resp = r, !.ok = ok, !.returned = TRUE,
                         !.ret = tok]

NoCalls == [refresh |-> 0, auth |-> 0]

\* where a flow rests between two get_bearer_token invocations
Rest(p) == IF p = Main THEN "menu" ELSE "sleep"

\* ------------------------------------------------- the resource endpoint
\* A URL is the API origin written `origins` times followed by the path of
\* page `page`: a root-relative link has no origin, an absolute URL has
\* one, and page 0 stands for no URL at all.
Link(o, j) == [origins |-> o, page |-> j]

NoUrl == Link(0, 0)

\* queues_url = f"https://na.cc.avayacloud.com/.../accounts/{id}/queues"
StartUrl == Link(1, 1)

Pages == 1..MaxPages

\* the links.next a page can declare: none, a root-relative path or an
\* absolute URL of any page
Links == {NoUrl} \cup {Link(o, j) : o \in {0, 1}, j \in Pages}

\* the records page j lists under "queues": none, or two records of which
\* the second has no "name" key; a page may also lack the "queues" key
ItemsOf(j, shape) ==
    IF shape = "two"
    THEN <<[queueId |-> 2 * j - 1, name |-> 100 + j, extra |-> 7],
           [queueId |-> 2 * j, name |-> Absent, extra |-> 7]>>
    ELSE <<>>

Shapes == {"two", "empty", "missing"}

PageData(j, shape, link) ==
    [served |-> TRUE, has_queues |-> shape # "missing",
     queues |-> ItemsOf(j, shape), next |-> link]

\* the bodies page j can have
Bodies(j) == {PageData(j, shape, link) : shape \in Shapes, link \in Links}

\* a page nobody has requested yet: its body is fixed by the first GET
Unserved ==
    [served |-> FALSE, has_queues |-> FALSE, queues |-> <<>>,
     next |-> NoUrl]

\* get_queues has not run: `self.queues = []` of __init__
NoFetch ==
    /\ queues = <<>>
    /\ queues_url = NoUrl
    /\ headers = None
    /\ gets = 0
    /\ token_calls = 0
    /\ walk = <<>>
    /\ stored_before = <<>>
    /\ fetched_before = FALSE

Init ==
    /\ chain = [j \in Pages |-> Unserved]
    /\ NoFetch
    /\ now = 0
    /\ bearer_token = None
    /\ refresh_token = None
    /\ token_expires_at = 0
    /\ refresh_token_expires_at = 0
    /\ token_expires_src = None
    /\ refresh_expires_src = None
    /\ token_refresh_task = None
    /\ pc = [p \in Procs |-> IF p = Main THEN "menu" ELSE "unborn"]
    /\ wake_at = [t \in Tasks |-> 0]
    /\ req = [p \in Procs |-> 0]
    /\ calls = [p \in Procs |-> NoCalls]
    /\ reqs = 0
    /\ ev = Event("init", Main)

\* time passes (while the foreground waits for input or for the network)
Advance ==
    /\ UNCHANGED fetchVars
    /\ now + Tick <= MaxTime
    /\ now' = now + Tick
    /\ ev' = Event("tick", Main)
    /\ UNCHANGED <<tokenState, tokenSrc, token_refresh_task, pc, wake_at,
                   req, calls, reqs>>

\* a flow comes back from get_bearer_token with `return self.bearer_token`;
\* the background task then loops into its next asyncio.sleep(60)
Resume(p) ==
    /\ pc' = [pc EXCEPT ![p] = Rest(p)]
    /\ req' = [req EXCEPT ![p] = 0]
    /\ wake_at' = IF p = Main THEN wake_at
                  ELSE [wake_at EXCEPT ![p] = now + RenewalPeriod]

\* get_bearer_token up to its first await (or its return): entered by the
\* foreground from the menu and by a task when its sleep has ended
get_bearer_token(p) ==
    /\ UNCHANGED fetchVars
    /\ \/ p = Main /\ pc[p] = "menu"
       \/ p # Main /\ pc[p] = "sleep" /\ now >= wake_at[p]
    /\ IF ~NeedsRenewal(bearer_token, token_expires_at, now)
       THEN /\ Resume(p)
            /\ calls' = [calls EXCEPT ![p] = NoCalls]
            /\ ev' = Returned("get_bearer_token", p, NoResponse, TRUE,
                                   bearer_token)
            /\ UNCHANGED <<now, tokenState, tokenSrc, token_refresh_task,
                           reqs>>
       ELSE /\ reqs < MaxReqs
            /\ reqs' = reqs + 1
            /\ req' = [req EXCEPT ![p] = reqs + 1]
            /\ IF RefreshUsable(refresh_token, refresh_token_expires_at, now)
               THEN /\ pc' = [pc EXCEPT ![p] = "refresh"]
                    /\ calls' = [calls EXCEPT
                                   ![p] = [refresh |-> 1, auth |-> 0]]
               ELSE /\ pc' = [pc EXCEPT ![p] = "auth"]
                    /\ calls' = [calls EXCEPT
                                   ![p] = [refresh |-> 0, auth |-> 1]]
            /\ ev' = Event("get_bearer_token", p)
            /\ UNCHANGED <<now, tokenState, tokenSrc, token_refresh_task,
                           wake_at>>

\* the answer to the refresh grant arrives: _refresh_access_token finishes
\* and get_bearer_token returns or falls back to _authenticate
RefreshResponse(p) ==
    /\ UNCHANGED fetchVars
    /\ pc[p] = "refresh"
    /\ \E r \in Responses(req[p]) :
         LET e == _refresh_access_token(State, r, now) IN
         /\ SetState(e.s)
         /\ IF e.ok
            THEN /\ Resume(p)
                 /\ ev' = Returned("_refresh_access_token", p, r, TRUE,
                                   e.s.bearer_token)
                 /\ UNCHANGED <<calls, reqs>>
            ELSE /\ reqs < MaxReqs
                 /\ reqs' = reqs + 1
                 /\ req' = [req EXCEPT ![p] = reqs + 1]
                 /\ pc' = [pc EXCEPT ![p] = "auth"]
                 /\ calls' = [calls EXCEPT ![p].auth = @ + 1]
                 /\ ev' = [Event("_refresh_access_token", p)
                             EXCEPT !.resp = r, !.ok = FALSE]
                 /\ UNCHANGED wake_at
    /\ UNCHANGED <<now, token_refresh_task>>

\* the answer to the client-credentials grant arrives: _authenticate
\* finishes and get_bearer_token returns whatever token is held
AuthResponse(p) ==
    /\ UNCHANGED fetchVars
    /\ pc[p] = "auth"
    /\ \E r \in Responses(req[p]) :
         LET e == _authenticate(State, r, now) IN
         /\ SetState(e.s)
         /\ Resume(p)
         /\ ev' = Returned("_authenticate", p, r, e.ok, e.s.bearer_token)
    /\ UNCHANGED <<now, token_refresh_task, calls, reqs>>

\* -------------------------------------------------- background renewal
\* variant that creates a task on every call
ShouldStart_Always(task) ==
    TRUE

\* `if self.token_refresh_task is None`
ShouldStart(task) ==
    task = None

\* `if self.token_refresh_task`
ShouldStop(task) ==
    task # None

Unborn == {t \in Tasks : pc[t] = "unborn"}

\* the tasks that still have code of _refresh_token_periodically to run
ActiveTasks == {t \in Tasks : pc[t] \in {"created", "sleep", "refresh", "auth"}}

\* start_token_refresh: asyncio.create_task only schedules the coroutine
start_token_refresh ==
    /\ UNCHANGED fetchVars
    /\ pc[Main] = "menu"
    /\ IF ShouldStart(token_refresh_task)
       THEN /\ Unborn # {}
            /\ LET t == CHOOSE t \in Unborn : \A u \in Unborn : t <= u IN
                 /\ pc' = [pc EXCEPT ![t] = "created"]
                 /\ token_refresh_task' = t
       ELSE UNCHANGED <<pc, token_refresh_task>>
    /\ ev' = Event("start_token_refresh", Main)
    /\ UNCHANGED <<now, tokenState, tokenSrc, wake_at, req, calls, reqs>>

\* the event loop runs the new task for the first time: it enters
\* `while True` and suspends in asyncio.sleep(60)
_refresh_token_periodically(t) ==
    /\ UNCHANGED fetchVars
    /\ pc[t] = "created"
    /\ pc' = [pc EXCEPT ![t] = "sleep"]
    /\ wake_at' = [wake_at EXCEPT ![t] = now + RenewalPeriod]
    /\ ev' = Event("_refresh_token_periodically", t)
    /\ UNCHANGED <<now, tokenState, tokenSrc, token_refresh_task, req,
                   calls, reqs>>

\* stop_token_refresh: Task.cancel() raises CancelledError at the await the
\* task is suspended in; CancelledError is no Exception, so no handler of
\* the task catches it and none of its code runs afterwards
stop_token_refresh ==
    /\ UNCHANGED fetchVars
    /\ pc[Main] = "menu"
    /\ IF ShouldStop(token_refresh_task)
       THEN /\ pc' = [pc EXCEPT ![token_refresh_task] = "cancelled"]
            /\ wake_at' = [wake_at EXCEPT ![token_refresh_task] = 0]
            /\ req' = [req EXCEPT ![token_refresh_task] = 0]
            /\ calls' = [calls EXCEPT ![token_refresh_task] = NoCalls]
            /\ token_refresh_task' = None
       ELSE UNCHANGED <<pc, wake_at, req, calls, token_refresh_task>>
    /\ ev' = Event("stop_token_refresh", Main)
    /\ UNCHANGED <<now, tokenState, tokenSrc, reqs>>

\* ----------------------------------------------------------- token status
\* `self.token_expires_at - now if self.token_expires_at > 0 else 0`
Remaining(exp, t) ==
    IF exp > 0 THEN exp - t ELSE 0

get_token_expiration_status ==
    /\ UNCHANGED fetchVars
    /\ pc[Main] = "menu"
    /\ ev' = [Event("get_token_expiration_status", Main) EXCEPT
                !.returned = TRUE,
                !.access_token_remaining =
                    Remaining(token_expires_at, now),
                !.refresh_token_remaining =
                    Remaining(refresh_token_expires_at, now)]
    /\ UNCHANGED <<now, tokenState, tokenSrc, token_refresh_task, pc,
                   wake_at, req, calls, reqs>>

\* ------------------------------------------------------------- get_queues
\* dict.get(key): None when the key is missing
Get(v) == IF v = Absent THEN None ELSE v

\* `{'queueId': queue.get('queueId'), 'name': queue.get('name')}`
Project(q) ==
    [queueId |-> Get(q.queueId), name |-> Get(q.name)]

\* variant without `self.queues = []`
FreshCollection_Keep(qs) ==
    qs

\* `self.queues = []`
FreshCollection(qs) ==
    <<>>

\* variant that puts each page's records in front of the earlier ones
Accumulate_Prepend(qs, data) ==
    LET items == IF data.has_queues THEN data.queues ELSE <<>> IN
    [i \in 1..Len(items) |-> Project(items[i])] \o qs

\* `for queue in data.get('queues', []): self.queues.append({...})`
Accumulate(qs, data) ==
    LET items == IF data.has_queues THEN data.queues ELSE <<>> IN
    qs \o [i \in 1..Len(items) |-> Project(items[i])]

\* variant that takes the link as the next URL without the origin
Resolve_AsIs(link) ==
    link

\* `queues_url = f"{base_url}{next_path}"`
Resolve(link) ==
    Link(link.origins + 1, link.page)

\* variant that ends the walk on a page without records
NextCursor_StopOnEmpty(data) ==
    IF data.next # NoUrl /\ data.has_queues /\ data.queues # <<>>
    THEN Link(data.next.origins + 1, data.next.page)
    ELSE NoUrl

\* `if 'links' in data and 'next' in data['links']: ... else: queues_url = None`
NextCursor(data) ==
    IF data.next # NoUrl THEN Resolve(data.next) ELSE NoUrl

\* variant with `if` in place of `while`: one page only
WalkContinues_Once(url) ==
    FALSE

\* `while queues_url:`
WalkContinues(url) ==
    url # NoUrl

\* only the origin written once followed by a page's path is a URL of the
\* resource endpoint; a GET of anything else fails in the transport
Reachable(url) ==
    url.origins = 1 /\ url.page \in Pages

GetEvent(status, returned, ok) ==
    [Event("client.get", Main) EXCEPT
        !.resp = [NoResponse EXCEPT !.status = status],
        !.returned = returned, !.ok = ok]

\* get_queues once get_bearer_token has returned, up to the first
\* `await client.get`: without a token it returns None, otherwise it empties
\* self.queues, builds the headers once and requests the first page
EnterLoop(tok, op) ==
    IF tok = None
    THEN /\ pc' = [pc EXCEPT ![Main] = "menu"]
         /\ ev' = [Event(op, Main) EXCEPT !.returned = TRUE, !.ok = FALSE]
         /\ fetched_before' = FALSE
         /\ UNCHANGED <<queues, queues_url, headers, gets>>
    ELSE /\ pc' = [pc EXCEPT ![Main] = "get"]
         /\ queues' = FreshCollection(queues)
         /\ queues_url' = StartUrl
         /\ headers' = tok
         /\ gets' = 1
         /\ ev' = Event(op, Main)
         /\ UNCHANGED fetched_before

\* get_queues up to its first await: `await self.get_bearer_token()` runs
\* get_bearer_token in the same flow
get_queues ==
    /\ pc[Main] = "menu"
    /\ stored_before' = queues
    /\ token_calls' = 1
    /\ walk' = <<>>
    /\ IF ~NeedsRenewal(bearer_token, token_expires_at, now)
       THEN /\ EnterLoop(bearer_token, "get_queues")
            /\ calls' = [calls EXCEPT ![Main] = NoCalls]
            /\ UNCHANGED <<req, reqs>>
       ELSE /\ reqs < MaxReqs
            /\ reqs' = reqs + 1
            /\ req' = [req EXCEPT ![Main] = reqs + 1]
            /\ IF RefreshUsable(refresh_token, refresh_token_expires_at, now)
               THEN /\ pc' = [pc EXCEPT ![Main] = "get_queues:refresh"]
                    /\ calls' = [calls EXCEPT
                                   ![Main] = [refresh |-> 1, auth |-> 0]]
               ELSE /\ pc' = [pc EXCEPT ![Main] = "get_queues:auth"]
                    /\ calls' = [calls EXCEPT
                                   ![Main] = [refresh |-> 0, auth |-> 1]]
            /\ ev' = Event("get_queues", Main)
            /\ UNCHANGED <<queues, queues_url, headers, gets,
                           fetched_before>>
    /\ UNCHANGED <<now, tokenState, tokenSrc, token_refresh_task, wake_at,
                   chain>>

\* the answer to the refresh grant arrives inside get_queues
FetchRefreshResponse ==
    /\ pc[Main] = "get_queues:refresh"
    /\ \E r \in Responses(req[Main]) :
         LET e == _refresh_access_token(State, r, now) IN
         /\ SetState(e.s)
         /\ IF e.ok
            THEN /\ EnterLoop(e.s.bearer_token, "get_queues:refresh")
                 /\ req' = [req EXCEPT ![Main] = 0]
                 /\ UNCHANGED <<calls, reqs>>
            ELSE /\ reqs < MaxReqs
                 /\ reqs' = reqs + 1
                 /\ req' = [req EXCEPT ![Main] = reqs + 1]
                 /\ pc' = [pc EXCEPT ![Main] = "get_queues:auth"]
                 /\ calls' = [calls EXCEPT ![Main].auth = @ + 1]
                 /\ ev' = [Event("get_queues:refresh", Main)
                             EXCEPT !.resp = r, !.ok = FALSE]
                 /\ UNCHANGED <<queues, queues_url, headers, gets,
                                fetched_before>>
    /\ UNCHANGED <<now, token_refresh_task, wake_at, chain, token_calls,
                   walk, stored_before>>

\* the answer to the client-credentials grant arrives inside get_queues
FetchAuthResponse ==
    /\ pc[Main] = "get_queues:auth"
    /\ \E r \in Responses(req[Main]) :
         LET e == _authenticate(State, r, now) IN
         /\ SetState(e.s)
         /\ EnterLoop(e.s.bearer_token, "get_queues:auth")
    /\ req' = [req EXCEPT ![Main] = 0]
    /\ UNCHANGED <<now, token_refresh_task, wake_at, calls, reqs, chain,
                   token_calls, walk, stored_before>>

\* variant with `break` in place of `return None`: the list is returned
AbortWalk_Break ==
    /\ pc' = [pc EXCEPT ![Main] = "menu"]
    /\ ev' = [Event("client.get", Main) EXCEPT
                !.resp = [NoResponse EXCEPT !.status = "error"],
                !.returned = TRUE, !.ok = TRUE]
    /\ fetched_before' = FALSE
    /\ UNCHANGED <<chain, queues, queues_url, gets, walk>>

\* `except ...: return None`: the walk is given up
AbortWalk ==
    /\ pc' = [pc EXCEPT ![Main] = "menu"]
    /\ ev' = GetEvent("error", TRUE, FALSE)
    /\ fetched_before' = FALSE
    /\ UNCHANGED <<chain, queues, queues_url, gets, walk>>

\* one turn of the loop from the page's body on: collect the records, move
\* the cursor, then request the next page or return self.queues
TakePage(data) ==
    LET url == NextCursor(data) IN
    /\ queues' = Accumulate(queues, data)
    /\ queues_url' = url
    /\ walk' = Append(walk, queues_url.page)
    /\ chain' = [chain EXCEPT ![queues_url.page] = data]
    /\ IF WalkContinues(url)
       THEN /\ gets < MaxGets
            /\ gets' = gets + 1
            /\ ev' = GetEvent("ok", FALSE, TRUE)
            /\ UNCHANGED <<pc, fetched_before>>
       ELSE /\ pc' = [pc EXCEPT ![Main] = "menu"]
            /\ fetched_before' = TRUE
            /\ ev' = GetEvent("ok", TRUE, TRUE)
            /\ UNCHANGED gets

\* the answer to `await client.get(queues_url, headers=headers)` arrives
GetResponse ==
    /\ pc[Main] = "get"
    /\ \/ AbortWalk
       \/ /\ Reachable(queues_url)
          /\ \E data \in IF chain[queues_url.page].served
                         THEN {chain[queues_url.page]}
                         ELSE Bodies(queues_url.page) :
                TakePage(data)
    /\ UNCHANGED <<now, tokenState, tokenSrc, token_refresh_task, wake_at,
                   req, calls, reqs, headers, token_calls, stored_before>>

\* the token states get_queues can be called in: nothing obtained yet, or
\* one complete answer accepted at time 0, now or one Tick ago
InitFetch ==
    /\ chain = [j \in Pages |-> Unserved]
    /\ NoFetch
    /\ token_refresh_task = None
    /\ pc = [p \in Procs |-> IF p = Main THEN "menu" ELSE "unborn"]
    /\ wake_at = [t \in Tasks |-> 0]
    /\ req = [p \in Procs |-> 0]
    /\ calls = [p \in Procs |-> NoCalls]
    /\ ev = Event("init", Main)
    /\ \/ /\ now = 0
          /\ reqs = 0
          /\ SetInitial(NoTokens)
       \/ /\ now \in {0, Tick}
          /\ reqs = 1
          /\ \E r \in Responses(1) :
                /\ _authenticate(NoTokens, r, 0).ok
                /\ SetInitial(_authenticate(NoTokens, r, 0).s)

NextFetch ==
    \/ get_queues
    \/ FetchRefreshResponse
    \/ FetchAuthResponse
    \/ GetResponse

SpecFetch == InitFetch /\ [][NextFetch]_vars

Next ==
    \/ Advance
    \/ \E p \in Procs : get_bearer_token(p)
    \/ \E p \in Procs : RefreshResponse(p)
    \/ \E p \in Procs : AuthResponse(p)
    \/ start_token_refresh
    \/ \E t \in Tasks : _refresh_token_periodically(t)
    \/ stop_token_refresh
    \/ get_token_expiration_status

Spec == Init /\ [][Next]_vars

\* ------------------------------------------------------------ properties
GetTokenOps == {"get_bearer_token", "_refresh_access_token", "_authenticate"}

\* C1: whenever an access token is held and accessExpiresAt - now > 50 s, a
\* get_bearer_token call sends no token-endpoint request, leaves the four
\* TokenState fields as they are and returns the held access token.
C1_FreshTokenServedFromCache ==
    [][(/\ ev'.op = "get_bearer_token"
        /\ bearer_token # None
        /\ token_expires_at - now > SafetyMargin)
       => (/\ reqs' = reqs
           /\ UNCHANGED tokenState
           /\ calls'[ev'.p] = NoCalls
           /\ pc'[ev'.p] \notin {"refresh", "auth"}
           /\ ev'.returned
           /\ ev'.ret = bearer_token)]_vars

\* a call found a token with more than the margin left and handed it back
C1_Witness ==
    /\ ev.op = "get_bearer_token"
    /\ ev.returned
    /\ ev.ret # None
    /\ ev.ret = bearer_token
    /\ token_expires_at - now > SafetyMargin

\* C2: when get_bearer_token finds the access token absent or within 50 s
\* of expiry, it calls Refresh() if a refresh token is held and
\* now < refreshExpiresAt, and then Authenticate() exactly once if and only
\* if that Refresh() failed; otherwise it calls Authenticate() exactly once
\* and never Refresh(); the invocation sends no other request.
C2_RenewalStep ==
    [][LET p == ev'.p IN
       /\ (/\ ev'.op = "get_bearer_token"
           /\ (bearer_token = None
               \/ token_expires_at - now <= SafetyMargin))
          => (/\ reqs' = reqs + 1
              /\ ~ev'.returned
              /\ IF refresh_token # None /\ now < refresh_token_expires_at
                 THEN /\ pc'[p] = "refresh"
                      /\ calls'[p] = [refresh |-> 1, auth |-> 0]
                 ELSE /\ pc'[p] = "auth"
                      /\ calls'[p] = [refresh |-> 0, auth |-> 1])
       /\ (ev'.op = "_refresh_access_token" /\ ev'.ok)
          => (/\ ev'.returned
              /\ reqs' = reqs
              /\ calls'[p] = [refresh |-> 1, auth |-> 0])
       /\ (ev'.op = "_refresh_access_token" /\ ~ev'.ok)
          => (/\ ~ev'.returned
              /\ pc'[p] = "auth"
              /\ reqs' = reqs + 1
              /\ calls'[p] = [refresh |-> 1, auth |-> 1])
       /\ ev'.op = "_authenticate"
          => (/\ ev'.returned
              /\ reqs' = reqs
              /\ calls'[p] = calls[p]
              /\ calls'[p].auth = 1
              /\ calls'[p].refresh \in {0, 1})]_vars

\* an invocation refreshed, saw the refresh fail, authenticated once and
\* returned
C2_Witness ==
    /\ ev.op = "_authenticate"
    /\ ev.returned
    /\ calls[ev.p] = [refresh |-> 1, auth |-> 1]

\* C3: the decision-and-refresh sequence of one get_bearer_token invocation
\* is atomic with respect to the others: no two flows have both found the
\* token stale and both have a token-endpoint request in flight.
C3_NoOverlappingRenewals ==
    \A p, q \in Procs :
        (p # q /\ pc[p] \in {"refresh", "auth"})
            => pc[q] \notin {"refresh", "auth"}

\* C4: TokenState is never partially updated: the held access token and
\* accessExpiresAt come from the same accepted token response, and so do
\* the held refresh token and refreshExpiresAt.
C4_FieldsFromSameResponse ==
    /\ token_expires_src = bearer_token
    /\ refresh_expires_src = refresh_token

\* C5: whenever Authenticate() or Refresh() reports failure, the four
\* TokenState fields are what they were before the call and the operation
\* sent exactly one token-endpoint request.
C5_FailureLeavesStateUnchanged ==
    [][(ev'.op \in {"_refresh_access_token", "_authenticate"} /\ ~ev'.ok)
       => (/\ UNCHANGED tokenState
           /\ ev'.resp.id = req[ev'.p]
           /\ IF ev'.op = "_authenticate"
              THEN calls[ev'.p].auth = 1
              ELSE calls[ev'.p].refresh = 1)]_vars

C8_RemainingNeverNegative ==
    ev.op = "get_token_expiration_status"
        => /\ ev.access_token_remaining >= 0
           /\ ev.refresh_token_remaining >= 0
           /\ token_expires_at = 0 => ev.access_token_remaining = 0
           /\ refresh_token_expires_at = 0
                => ev.refresh_token_remaining = 0

\* C9: after any sequence of start_token_refresh and stop_token_refresh
\* calls at most one periodic task is active: start with an active task
\* creates none, stop leaves none, stop without a task changes nothing and
\* start after stop creates exactly one new task.
C9_AtMostOneTask ==
    [][/\ Cardinality(ActiveTasks') <= 1
       /\ (token_refresh_task' = None) = (ActiveTasks' = {})
       /\ ev'.op = "start_token_refresh"
            => IF ActiveTasks # {}
               THEN /\ ActiveTasks' = ActiveTasks
                    /\ UNCHANGED <<pc, token_refresh_task, wake_at>>
               ELSE /\ Cardinality(ActiveTasks') = 1
                    /\ ActiveTasks' = {token_refresh_task'}
                    /\ pc[token_refresh_task'] = "unborn"
       /\ ev'.op = "stop_token_refresh"
            => /\ ActiveTasks' = {}
               /\ ActiveTasks = {}
                    => UNCHANGED <<pc, token_refresh_task, wake_at, req,
                                   calls, tokenState, reqs>>]_vars

\* start was called after a stop had cancelled an earlier task, and one
\* task is active
C9_Witness ==
    /\ ev.op = "start_token_refresh"
    /\ \E t \in Tasks : pc[t] = "cancelled"
    /\ Cardinality(ActiveTasks) = 1
    /\ token_refresh_task \in ActiveTasks

\* C10: when stop_token_refresh is called while an exchange started by the
\* background task is in flight, the exchange runs to completion:
\* cancellation never takes effect between the start of a token-endpoint
\* request and the replacement of TokenState.
C10_NoCancelMidExchange ==
    [][\A t \in Tasks :
          pc[t] \in {"refresh", "auth"} => pc'[t] # "cancelled"]_vars

\* ------------------------------------------------ properties of get_queues
\* a record reduced to its id and its name
IdAndName(q) ==
    [queueId |-> IF q.queueId = Absent THEN None ELSE q.queueId,
     name |-> IF q.name = Absent THEN None ELSE q.name]

RECURSIVE ItemsOfPages(_)
\* the records of the pages w, page after page, each page in its own order
ItemsOfPages(w) ==
    IF w = <<>>
    THEN <<>>
    ELSE LET j == w[Len(w)] IN
         ItemsOfPages(SubSeq(w, 1, Len(w) - 1))
            \o [i \in 1..Len(chain[j].queues) |->
                    IdAndName(chain[j].queues[i])]

\* w starts at the first page, follows the next links and ends at a page
\* that declares none
IsChain(w) ==
    /\ w # <<>>
    /\ w[1] = StartUrl.page
    /\ \A i \in 1..(Len(w) - 1) : chain[w[i]].next = Link(0, w[i + 1])
    /\ chain[w[Len(w)]].next = NoUrl

GetReturnedList == ev.op = "client.get" /\ ev.returned /\ ev.ok

GetReturnedNone == ev.op = "client.get" /\ ev.returned /\ ~ev.ok

\* C11: over a chain of n >= 1 pages whose GETs all succeed, get_queues
\* returns the records of all pages reduced to id and name, in page order
\* and in each page's order, after exactly n authenticated GETs.
C11_ReturnsConcatenation ==
    GetReturnedList
        => /\ IsChain(walk)
           /\ queues = ItemsOfPages(walk)
           /\ gets = Len(walk)
           /\ headers # None

\* a walk over three different pages with two records each has returned
C11_Witness ==
    /\ GetReturnedList
    /\ Len(walk) = 3
    /\ Cardinality({walk[i] : i \in 1..3}) = 3
    /\ Len(queues) = 6

\* C12: when the GET of a page fails, the walk stops at that page, no
\* further GET is sent and the caller gets the failure result (None), which
\* carries no records of the pages fetched before.
C12_FailureAborts ==
    [][(ev'.op = "client.get" /\ ev'.resp.status = "error")
       => (/\ ev'.returned
           /\ ~ev'.ok
           /\ gets' = gets
           /\ walk' = walk
           /\ pc'[Main] = "menu")]_vars

\* the second or a later page failed after pages with records
C12_Witness ==
    /\ GetReturnedNone
    /\ walk # <<>>
    /\ ItemsOfPages(walk) # <<>>
    /\ gets = Len(walk) + 1

\* C13: after a get_queues that gave up on a page failure, the stored
\* collection holds no record of the pages fetched before the failure.
C13_PartialResultsDiscarded ==
    GetReturnedNone
        => \A k \in 1..Len(queues) :
              \A i \in 1..Len(ItemsOfPages(walk)) :
                  queues[k] # ItemsOfPages(walk)[i]

\* C14: the bearer token is fetched again for every page: each GET in
\* flight was preceded by its own get_bearer_token call and carries the
\* token held now, so a walk of n pages makes n get_bearer_token calls.
C14_TokenPerPage ==
    pc[Main] = "get"
        => /\ token_calls = gets
           /\ headers = bearer_token

\* C15: whether the walk continues depends only on the next link: a page
\* with no records or without the "queues" key adds nothing, is no error,
\* and the walk goes on to its next link when it declares one.
C15_EmptyPageContinues ==
    [][(ev'.op = "client.get" /\ ev'.resp.status = "ok")
       => LET data == chain'[queues_url.page] IN
          /\ (~data.has_queues \/ data.queues = <<>>) => queues' = queues
          /\ data.next # NoUrl
                => (/\ ~ev'.returned
                    /\ pc'[Main] = "get"
                    /\ queues_url' # NoUrl
                    /\ gets' = gets + 1)
          /\ data.next = NoUrl => (ev'.returned /\ ev'.ok)]_vars

\* the walk went on after a page that has no "queues" key
C15_Witness ==
    /\ ev.op = "client.get"
    /\ ~ev.returned
    /\ pc[Main] = "get"
    /\ walk # <<>>
    /\ ~chain[walk[Len(walk)]].has_queues
    /\ gets = Len(walk) + 1

C17_RefetchRebuilds ==
    [][(/\ ev'.op = "client.get"
        /\ ev'.returned
        /\ ev'.ok
        /\ fetched_before)
       => queues' = stored_before]_vars

\* two walks over the same two or more pages with records have returned
C17_Witness ==
    /\ GetReturnedList
    /\ Len(walk) >= 2
    /\ Len(queues) = 2 * Len(walk)
    /\ stored_before = queues

\* C18: after a failed authenticate or refresh the manager is not Valid:
\* the token is absent or within the margin, so the next get_bearer_token
\* sends a token-endpoint request again.
C18_FailureLeavesStale ==
    [][(ev'.op \in {"_refresh_access_token", "_authenticate"} /\ ~ev'.ok)
       => (\/ bearer_token' = None
           \/ token_expires_at' - now' <= SafetyMargin)]_vars

C20_ExitsOnlyWithoutNext ==
    [][ev'.op = "client.get"
       => LET data == chain'[queues_url.page] IN
          /\ ev'.returned
                = (ev'.resp.status = "error" \/ data.next = NoUrl)
          /\ (ev'.resp.status = "ok" /\ data.next # NoUrl)
                => (/\ pc'[Main] = "get"
                    /\ gets' = gets + 1
                    /\ walk' = Append(walk, queues_url.page)
                    /\ Len(queues') = Len(queues) + Len(data.queues))]_vars

\* the walk is on its way to a page it has fetched twice already, with the
\* records of both visits stored
C20_Witness ==
    /\ pc[Main] = "get"
    /\ Len(walk) = 2
    /\ walk[1] = walk[2]
    /\ queues_url.page = walk[1]
    /\ Reachable(queues_url)
    /\ Len(queues) = 4

=============================================================================
